---- MODULE Spec2Model ----
(***************************************************************************)
(* Model of api/index.py: the Flask process that checks its configuration  *)
(* at import time and serves GET /api/get-cities by issuing one POST to    *)
(* the Notion database-query endpoint and flattening the answer into a     *)
(* list of city names.                                                     *)
(*                                                                         *)
(* Strings are sequences of one-character strings so that str.strip() is   *)
(* computed, not assumed.  JSON values that the handler subscripts are     *)
(* records with explicit tags for "key absent", "null" and "not a string", *)
(* because the handler's behaviour differs on each (dict[...] raises       *)
(* KeyError, a falsy value is skipped, .strip() on a number raises         *)
(* AttributeError).                                                        *)
(***************************************************************************)
EXTENDS Integers, Sequences, FiniteSets, TLC

VARIABLES token, dbid, pc, calls, responses, outcome, response, origin, loopRan

vars == <<token, dbid, pc, calls, responses, outcome, response, origin, loopRan>>

(***************************************************************************)
(* Bounds and input samples                                                *)
(***************************************************************************)
MaxRecords == 2

\* os.environ.get(...) yields None (unset), '' (empty) or a non-empty string.
EnvValues == {"unset", "empty", "set"}

\* Sample plain_text strings: empty, whitespace only, clean, padded on both
\* sides, interior whitespace.
Texts ==
    { <<>>, <<" ">>, <<"a">>, <<" ", "a", " ">>, <<"a", " ", "c">> }

\* A text segment of a title / rich_text payload.  pt says what the segment
\* holds under 'plain_text': nothing (key absent), null, a number, a string.
Seg(pt, text) == [pt |-> pt, text |-> text]

Segs ==
    { Seg("absent", <<>>), Seg("null", <<>>), Seg("num", <<>>) }
        \cup { Seg("str", t) : t \in Texts }

\* Segments after the first one always read "b", so that a name taken from
\* any segment but the first is recognisable.
TailSeg == Seg("str", <<"b">>)

Payloads ==
    { <<>> } \cup { <<s>> : s \in Segs }
        \cup { <<s, TailSeg>> : s \in { Seg("null", <<>>), Seg("str", <<" ">>),
                                         Seg("str", <<" ", "a", " ">>) } }

\* The value of page['properties'].get('City Name').
\*   shape   "none": the lookup gives None (property or 'properties' absent)
\*           "dict": a non-empty JSON object
\*   kind    the value under 'type', or "absent" when the object has no 'type'
\*   key     the payload key the object carries ("none", "title", "rich_text")
\*   payload the sequence under that key
Prop(shape, kind, key, payload) ==
    [shape |-> shape, kind |-> kind, key |-> key, payload |-> payload]

Props ==
    { Prop("none", "absent", "none", <<>>) }
        \cup { Prop("dict", "absent", "title", <<Seg("str", <<"a">>)>>) }
        \cup { Prop("dict", "number", k, <<Seg("str", <<"a">>)>>) : k \in {"none", "title"} }
        \cup { Prop("dict", k, k, p) : k \in {"title", "rich_text"}, p \in Payloads }
        \cup { Prop("dict", "title", "rich_text", <<Seg("str", <<"a">>)>>),
               Prop("dict", "rich_text", "none", <<>>) }

RECURSIVE SeqsUpTo(_, _)
SeqsUpTo(S, n) ==
    IF n = 0 THEN { <<>> }
    ELSE LET shorter == SeqsUpTo(S, n - 1)
         IN  shorter \cup { Append(q, x) : q \in { r \in shorter : Len(r) = n - 1 }, x \in S }

\* The 'message' field of an upstream JSON object.
Msg(tag, text) == [tag |-> tag, text |-> text]

Messages == { Msg("absent", <<>>), Msg("null", <<>>), Msg("str", <<>>), Msg("str", <<"m">>) }

\* The 'results' field of an upstream JSON object.
Res(tag, items) == [tag |-> tag, items |-> items]

\* An upstream body: not JSON at all, JSON that is not an object (a list, a
\* string, null), or a JSON object.
Body(form, message, results) == [form |-> form, message |-> message, results |-> results]

Bodies ==
    { Body("notjson", Msg("absent", <<>>), Res("absent", <<>>)),
      Body("nonobject", Msg("absent", <<>>), Res("absent", <<>>)) }
        \cup { Body("object", m, Res("absent", <<>>)) : m \in Messages }
        \cup { Body("object", Msg("absent", <<>>), Res("null", <<>>)) }
        \cup { Body("object", Msg("absent", <<>>), Res("list", r)) : r \in SeqsUpTo(Props, MaxRecords) }

Statuses == {101, 200, 201, 304, 404, 503}

\* What requests.post(..., timeout=15) can end with.
Outcome(kind, status, body) == [kind |-> kind, status |-> status, body |-> body]

NoBody == Body("notjson", Msg("absent", <<>>), Res("absent", <<>>))

NoOutcome == Outcome("none", 0, NoBody)

Outcomes ==
    { Outcome("timeout", 0, NoBody), Outcome("transport", 0, NoBody) }
        \cup { Outcome("http", s, b) : s \in Statuses, b \in Bodies }

(***************************************************************************)
(* Startup check (module level)                                            *)
(***************************************************************************)
\* Python truthiness of an environment value: None and '' are falsy.
Truthy(v) == v = "set"

\* A startup check that forgets the database identifier.
ConfigOkTokenOnly(t, d) == Truthy(t)

\* `if not NOTION_API_TOKEN: exit(1)` / `if not NOTION_DATABASE_ID: exit(1)`
ConfigOk(t, d) == Truthy(t) /\ Truthy(d)

(***************************************************************************)
(* str.strip()                                                             *)
(***************************************************************************)
Whitespace == {" "}

RECURSIVE LStrip(_)
LStrip(s) ==
    IF s # <<>> /\ Head(s) \in Whitespace THEN LStrip(Tail(s)) ELSE s

RECURSIVE RStrip(_)
RStrip(s) ==
    IF s # <<>> /\ s[Len(s)] \in Whitespace THEN RStrip(SubSeq(s, 1, Len(s) - 1)) ELSE s

\* A strip() that only removes leading whitespace.
StripLeadingOnly(s) == LStrip(s)

Strip(s) == RStrip(LStrip(s))

(***************************************************************************)
(* The per-record extraction, lines 79-98                                  *)
(***************************************************************************)
\* The value bound to city_name, or the exception the lookup raises.
\*   st = "none"  city_name is None
\*        "num"   city_name is a truthy non-string
\*        "str"   city_name is the string `text`
\*        "raise" KeyError
Name(st, text) == [st |-> st, text |-> text]

\* city_name = payload[0]['plain_text']
FirstPlainText(payload) ==
    LET seg == payload[1]
    IN  CASE seg.pt = "absent" -> Name("raise", <<>>)
          [] seg.pt = "null"   -> Name("none", <<>>)
          [] seg.pt = "num"    -> Name("num", <<>>)
          [] OTHER             -> Name("str", seg.text)

\* A kind test that also accepts any object carrying the kind's payload key.
HasKindOrPayload(prop, k) == prop.kind = k \/ prop.key = k

\* city_property['type'] == k
HasKind(prop, k) == prop.kind = k

\* `city_property[k]` for a property whose 'type' is k: KeyError unless the
\* object carries that key; an empty payload is falsy and leaves city_name None.
TakePayload(prop, k) ==
    IF prop.key # k THEN Name("raise", <<>>)
    ELSE IF prop.payload = <<>> THEN Name("none", <<>>)
    ELSE FirstPlainText(prop.payload)

\* lines 82-88
CityName(prop) ==
    IF prop.shape = "none" THEN Name("none", <<>>)
    ELSE IF prop.kind = "absent" THEN Name("raise", <<>>)
    ELSE IF HasKind(prop, "title") THEN TakePayload(prop, "title")
    ELSE IF HasKind(prop, "rich_text") THEN TakePayload(prop, "rich_text")
    ELSE Name("none", <<>>)

\* lines 94-98: what one record does to the loop.
\*   "raise"  an exception leaves the loop
\*   "skip"   the warning branch
\*   "append" cities.append(city_name.strip())
Step(st, text) == [st |-> st, text |-> text]

RecordStep(prop) ==
    LET n == CityName(prop)
    IN  CASE n.st = "raise" -> Step("raise", <<>>)
          [] n.st = "num"   -> Step("raise", <<>>)
          [] n.st = "none"  -> Step("skip", <<>>)
          [] OTHER ->
                IF n.text # <<>> /\ Strip(n.text) # <<>>
                THEN Step("append", Strip(n.text))
                ELSE Step("skip", <<>>)

\* lines 77-98: the loop over results from record i on.  origin remembers,
\* for each appended name, the index of the record it came from.
Loop(st, cities, from) == [st |-> st, cities |-> cities, origin |-> from]

RECURSIVE ExtractLoop(_, _, _, _)
ExtractLoop(results, i, cities, from) ==
    IF i > Len(results) THEN Loop("ok", cities, from)
    ELSE LET r == RecordStep(results[i])
         IN  CASE r.st = "raise"  -> Loop("raise", <<>>, <<>>)
               [] r.st = "append" ->
                     ExtractLoop(results, i + 1, Append(cities, r.text), Append(from, i))
               [] OTHER -> ExtractLoop(results, i + 1, cities, from)

(***************************************************************************)
(* The handler's responses                                                 *)
(***************************************************************************)
\* body   "list"       jsonify(cities)
\*        "error"      jsonify({"error": message})
\*        "unhandled"  the exception left get_cities; Flask answers with its
\*                     own 500 page, which is not a JSON error object
Response(status, body, names, message) ==
    [status |-> status, body |-> body, names |-> names, message |-> message]

NoResponse == Response(0, "none", <<>>, Msg("null", <<>>))

\* What get_cities hands back: the response, and what the loop did.
Result(resp, from, ran) == [resp |-> resp, origin |-> from, loopRan |-> ran]

Error(status, message) == Result(Response(status, "error", <<>>, message), <<>>, FALSE)

Unhandled == Result(Response(500, "unhandled", <<>>, Msg("null", <<>>)), <<>>, FALSE)

\* The fixed parts of the three messages the handler builds itself.
TimeoutMsg == Msg("str", <<"timeout">>)

FailMsg == Msg("str", <<"request failed">>)

InternalMsg == Msg("str", <<"internal error">>)

\* f"{error_message} (status: {e.response.status_code})"
WithStatus(m, status) == Msg("str", m.text \o <<"status", ToString(status)>>)

\* A timeout that falls through to the generic handler.
OnTimeoutAsFailure == Error(500, FailMsg)

\* lines 104-106
OnTimeout == Error(504, TimeoutMsg)

\* A raise_for_status() that lets 4xx through.
RaiseForStatus5xxOnly(status) == 500 <= status /\ status < 600

\* Response.raise_for_status(): HTTPError for 400 <= status < 600 only.
RaiseForStatus(status) == 400 <= status /\ status < 600

\* lines 107-117.  hasResponse is `e.response is not None`.
OnRequestException(hasResponse, status, body) ==
    IF ~hasResponse THEN Error(500, FailMsg)
    ELSE CASE body.form = "notjson"   -> Error(status, WithStatus(FailMsg, status))
           [] body.form = "nonobject" -> Unhandled
           [] OTHER ->
                 IF body.message.tag = "absent"
                 THEN Error(status, FailMsg)
                 ELSE Error(status, body.message)

\* lines 118-120
OnException == Error(500, InternalMsg)

\* lines 74-102.  jsonErr says which exception response.json() raises on a
\* body that is not JSON: requests' JSONDecodeError (a RequestException with
\* no response attached) or a plain ValueError, depending on the installed
\* requests.
OnSuccess(body, jsonErr) ==
    CASE body.form = "notjson" ->
            IF jsonErr = "RequestException"
            THEN OnRequestException(FALSE, 0, body)
            ELSE OnException
      [] body.form = "nonobject" -> OnException
      [] body.results.tag = "null" -> OnException
      [] OTHER ->
            LET results == IF body.results.tag = "absent" THEN <<>> ELSE body.results.items
                l == ExtractLoop(results, 1, <<>>, <<>>)
            IN  IF l.st = "raise" THEN [OnException EXCEPT !.loopRan = TRUE]
                ELSE Result(Response(200, "list", l.cities, Msg("null", <<>>)), l.origin, TRUE)

\* lines 70-120
get_cities(out, jsonErr) ==
    CASE out.kind = "timeout"   -> OnTimeout
      [] out.kind = "transport" -> OnRequestException(FALSE, 0, out.body)
      [] RaiseForStatus(out.status) -> OnRequestException(TRUE, out.status, out.body)
      [] OTHER -> OnSuccess(out.body, jsonErr)

(***************************************************************************)
(* The process                                                             *)
(***************************************************************************)
Init ==
    /\ token \in EnvValues
    /\ dbid \in EnvValues
    /\ pc = "boot"
    /\ calls = 0
    /\ responses = 0
    /\ outcome = NoOutcome
    /\ response = NoResponse
    /\ origin = <<>>
    /\ loopRan = FALSE

\* lines 44-49: exit(1) before the route is ever registered and served.
StartupExit ==
    /\ pc = "boot"
    /\ ~ConfigOk(token, dbid)
    /\ pc' = "exited"
    /\ UNCHANGED <<token, dbid, calls, responses, outcome, response, origin, loopRan>>

StartupServe ==
    /\ pc = "boot"
    /\ ConfigOk(token, dbid)
    /\ pc' = "idle"
    /\ UNCHANGED <<token, dbid, calls, responses, outcome, response, origin, loopRan>>

\* A GET /api/get-cities arrives; lines 57-68 build the upstream request.
ReceiveRequest ==
    /\ pc \in {"idle", "responded"}
    /\ pc' = "calling"
    /\ calls' = 0
    /\ responses' = 0
    /\ outcome' = NoOutcome
    /\ response' = NoResponse
    /\ origin' = <<>>
    /\ loopRan' = FALSE
    /\ UNCHANGED <<token, dbid>>

\* Where the handler goes after requests.post returned or raised: never back
\* to the call.
AfterCallRetryOnTimeout(out) == IF out.kind = "timeout" THEN "calling" ELSE "handling"

AfterCall(out) == "handling"

\* line 71: the single requests.post
UpstreamCall ==
    /\ pc = "calling"
    /\ \E out \in Outcomes :
          /\ outcome' = out
          /\ pc' = AfterCall(out)
    /\ calls' = calls + 1
    /\ UNCHANGED <<token, dbid, responses, response, origin, loopRan>>

\* lines 72-120: everything after the call, up to the one return.
Respond ==
    /\ pc = "handling"
    /\ \E jsonErr \in {"RequestException", "ValueError"} :
          LET r == get_cities(outcome, jsonErr)
          IN  /\ response' = r.resp
              /\ origin' = r.origin
              /\ loopRan' = r.loopRan
    /\ responses' = responses + 1
    /\ pc' = "responded"
    /\ UNCHANGED <<token, dbid, calls, outcome>>

Next ==
    \/ StartupExit
    \/ StartupServe
    \/ ReceiveRequest
    \/ UpstreamCall
    \/ Respond

Spec == Init /\ [][Next]_vars

(***************************************************************************)
(* Vocabulary of the properties                                            *)
(***************************************************************************)
Done == pc = "responded"

Completed == outcome.kind = "http"

Is2xx(status) == 200 <= status /\ status <= 299

HasResults == outcome.body.form = "object" /\ outcome.body.results.tag = "list"

Records == outcome.body.results.items

Ok200 == response.status = 200 /\ response.body = "list"

ErrorObject == response.body = "error"

GoodMessage == response.message.tag = "str" /\ response.message.text # <<>>

Contributors == { origin[k] : k \in 1..Len(origin) }

OnlySpaces(t) == \A j \in 1..Len(t) : t[j] = " "

\* The trimmed text, computed from the definition of trimming rather than by
\* the handler's own routine: the longest slice with no blank at either end.
Trimmed(t) ==
    IF OnlySpaces(t) THEN <<>>
    ELSE LET lo == CHOOSE i \in 1..Len(t) : t[i] # " " /\ \A j \in 1..(i - 1) : t[j] = " "
             hi == CHOOSE i \in 1..Len(t) : t[i] # " " /\ \A j \in (i + 1)..Len(t) : t[j] = " "
         IN  SubSeq(t, lo, hi)

\* A record the specification calls valid: kind title or rich_text, a
\* non-empty payload, and a first segment whose text is non-empty once trimmed.
Valid(prop) ==
    /\ prop.shape = "dict"
    /\ prop.kind \in {"title", "rich_text"}
    /\ prop.key = prop.kind
    /\ prop.payload # <<>>
    /\ prop.payload[1].pt = "str"
    /\ ~OnlySpaces(prop.payload[1].text)

\* A record of one of the shapes the upstream's data model allows: the kind
\* is present, a text kind carries its own payload, segments hold strings.
WellFormed(prop) ==
    \/ prop.shape = "none"
    \/ /\ prop.kind = "number"
    \/ /\ prop.kind \in {"title", "rich_text"}
       /\ prop.key = prop.kind
       /\ \A j \in 1..Len(prop.payload) : prop.payload[j].pt \in {"str", "null"}

RECURSIVE ValidNames(_)
ValidNames(rs) ==
    IF rs = <<>> THEN <<>>
    ELSE IF Valid(Head(rs))
         THEN <<Trimmed(Head(rs).payload[1].text)>> \o ValidNames(Tail(rs))
         ELSE ValidNames(Tail(rs))

(***************************************************************************)
(* C1: for a successful upstream response whose results hold N records, M  *)
(* of them valid, the handler answers 200 with exactly the M trimmed       *)
(* first-segment texts of the valid records, in record order.              *)
(***************************************************************************)
C1_ExactlyValidNamesInOrder ==
    (Done /\ Completed /\ Is2xx(outcome.status) /\ HasResults)
        => (Ok200 /\ response.names = ValidNames(Records))

\* The same statement restricted to responses all of whose records are
\* well-formed; it is what the loop does achieve.
ValidNamesInOrderOnWellFormed ==
    (Done /\ Completed /\ Is2xx(outcome.status) /\ HasResults
        /\ \A i \in 1..Len(Records) : WellFormed(Records[i]))
        => (Ok200 /\ response.names = ValidNames(Records))

(***************************************************************************)
(* C2: every response is 200 with a list of strings, or an error object    *)
(* with status 504 (timeout), the upstream's status (upstream HTTP error)  *)
(* or 500 (anything else); the error message is always a non-null,         *)
(* non-empty string.                                                       *)
(***************************************************************************)
C2_ClosedResponseSet ==
    Done =>
        \/ Ok200
        \/ /\ ErrorObject
           /\ GoodMessage
           /\ \/ response.status = 504 /\ outcome.kind = "timeout"
              \/ response.status = outcome.status /\ Completed /\ ~Is2xx(outcome.status)
              \/ response.status = 500

(***************************************************************************)
(* C3: whenever the upstream call completes with a non-2xx status (1xx and *)
(* 3xx included), the handler never runs the extraction loop and never     *)
(* returns a 200 list.                                                     *)
(***************************************************************************)
C3_Non2xxNeverExtracts ==
    (Done /\ Completed /\ ~Is2xx(outcome.status)) => (~loopRan /\ ~Ok200)

\* C3 as amended: whenever the upstream call completes with a 4xx or 5xx
\* status, the handler never runs the extraction loop and never returns a
\* 200 list.
C3_ErrorStatusNeverExtracts ==
    (Done /\ Completed /\ 400 <= outcome.status /\ outcome.status <= 599)
        => (~loopRan /\ ~Ok200 /\ response.body # "list")

C3_Witness ==
    /\ Done /\ Completed /\ outcome.status = 404
    /\ HasResults /\ \E i \in 1..Len(Records) : Valid(Records[i])
    /\ response.status = 404 /\ ~loopRan

(***************************************************************************)
(* C4: on a successful upstream response, a record that is not valid,      *)
(* whatever its property looks like, is dropped and never fails the        *)
(* request: the answer is still 200 with the names of the other records.   *)
(***************************************************************************)
C4_BadRecordNeverFailsRequest ==
    (Done /\ Completed /\ Is2xx(outcome.status) /\ HasResults
        /\ \E i \in 1..Len(Records) : ~Valid(Records[i]))
        => /\ Ok200
           /\ \A i \in Contributors : Valid(Records[i])
           /\ Len(response.names) = Cardinality({ i \in 1..Len(Records) : Valid(Records[i]) })

(***************************************************************************)
(* C5: when the upstream call completes with a 4xx or 5xx status S, the    *)
(* handler answers with status S and a JSON error object whose message is  *)
(* the upstream body's message field when the body is JSON containing one, *)
(* and a synthesized message otherwise.                                    *)
(***************************************************************************)
C5_UpstreamStatusPropagated ==
    (Done /\ Completed /\ 400 <= outcome.status /\ outcome.status <= 599)
        => /\ response.status = outcome.status
           /\ ErrorObject
           /\ IF outcome.body.form = "object" /\ outcome.body.message.tag # "absent"
              THEN response.message = outcome.body.message
              ELSE GoodMessage

(***************************************************************************)
(* C6: when the outbound call times out, the handler answers 504 with an   *)
(* error object carrying a non-empty message, and returns no names at all. *)
(***************************************************************************)
C6_TimeoutIs504 ==
    (Done /\ outcome.kind = "timeout")
        => /\ response.status = 504
           /\ ErrorObject
           /\ GoodMessage
           /\ response.names = <<>>
           /\ ~loopRan

C6_Witness == Done /\ outcome.kind = "timeout" /\ responses = 1 /\ response.status = 504

(***************************************************************************)
(* C7: if the API token or the database identifier is unset or empty, the  *)
(* process exits at startup: it never handles a request and never issues   *)
(* an outbound call.                                                       *)
(***************************************************************************)
C7_NoServingWithoutConfig ==
    (token # "set" \/ dbid # "set")
        => (pc \in {"boot", "exited"} /\ calls = 0 /\ responses = 0)

C7_Witness == pc = "exited" /\ token = "set" /\ dbid = "empty"

(***************************************************************************)
(* C8: a record whose property has a kind other than title or rich_text    *)
(* never contributes a name, whatever its payload holds.                   *)
(***************************************************************************)
C8_OtherKindsNeverContribute ==
    (Done /\ HasResults)
        => \A i \in Contributors : Records[i].kind \in {"title", "rich_text"}

C8_Witness ==
    /\ Done /\ HasResults /\ Ok200 /\ response.names # <<>>
    /\ \E i \in 1..Len(Records) :
          /\ Records[i].kind = "number"
          /\ Records[i].key = "title"
          /\ Records[i].payload # <<>>
          /\ i \notin Contributors

(***************************************************************************)
(* C9: every string of a 200 response is non-empty and has no leading or   *)
(* trailing whitespace; a record whose first-segment text is only          *)
(* whitespace is left out.                                                 *)
(***************************************************************************)
C9_NamesAreTrimmedNonEmpty ==
    (Done /\ Ok200)
        => /\ \A k \in 1..Len(response.names) :
                 LET n == response.names[k]
                 IN  n # <<>> /\ n[1] # " " /\ n[Len(n)] # " "
           /\ HasResults =>
                 \A i \in 1..Len(Records) :
                    (/\ Records[i].payload # <<>>
                     /\ Records[i].payload[1].pt = "str"
                     /\ OnlySpaces(Records[i].payload[1].text))
                        => i \notin Contributors

C9_Witness ==
    /\ Done /\ Ok200 /\ HasResults /\ Len(Records) = 2
    /\ Records[1] = Prop("dict", "rich_text", "rich_text", <<Seg("str", <<" ">>)>>)
    /\ Records[2] = Prop("dict", "title", "title", <<Seg("str", <<" ", "a", " ">>)>>)
    /\ response.names = << <<"a">> >>

(***************************************************************************)
(* C10: a request causes at most one outbound call; after a timeout, an    *)
(* HTTP error or any other failure the handler goes straight to its single *)
(* response, so every handled request ends with exactly one response.      *)
(***************************************************************************)
C10_OneCallOneResponse ==
    /\ calls <= 1
    /\ responses <= 1
    /\ pc = "handling" => (calls = 1 /\ responses = 0)
    /\ Done => (calls = 1 /\ responses = 1)

C10_Witness ==
    /\ Done /\ calls = 1 /\ responses = 1
    /\ outcome.kind = "timeout" /\ response.status = 504

====
